---- MODULE Spec2Model ----
(***************************************************************************)
(* A model of rsg-release-monitoring.py: the identifier parser             *)
(* u_parse_xlr_id, the entity constructors Release / Task, the paginated   *)
(* search Release.search_releases, the table rows of                       *)
(* Release.get_md_from_releases, generate_report and the poll loop of      *)
(* main(), which the __main__ block calls twice.                           *)
(*                                                                         *)
(* Strings are sequences of letters.  The alphabet is: the two delimiters  *)
(* "-" and "/", the three part keywords "Release", "Phase", "Task" (each   *)
(* stands for its literal characters) and a few letters that stand for any *)
(* other single character.  No keyword can start inside another letter, so *)
(* the regular expressions of u_parse_xlr_id act on these sequences as     *)
(* they act on the strings they spell.                                     *)
(***************************************************************************)
EXTENDS Integers, Sequences, FiniteSets, TLC

VARIABLES
    in_id,      \* SpecParse: the id handed to u_parse_xlr_id / Task()
    parsed,     \* SpecParse: the last u_parse_xlr_id call and what it returned
    task,       \* SpecParse: the Task built from in_id
    pc,           \* where the process is
    caller,       \* who called search_releases: "collecting_info" or "direct"
    mainNo,       \* which of the two main() calls of the __main__ block runs
    args,         \* the parsed command line
    now,          \* the clock, in seconds
    run_end,      \* main(): line 399
    next_run,     \* main(): line 401
    sleep_time_s, \* main(): line 405
    lastLog,      \* the last message main()'s loop logged in lines 408-412
    wake,         \* when the time.sleep of line 410 is over
    cycle,        \* how many times generate_report has been entered
    stamp,        \* generate_report: now_yyyymmdd_hhmm_
    g,            \* collecting_info: which of its three searches runs
    found,        \* collecting_info: the three result lists
    output_md,    \* generate_report: the table rows of the report
    files,        \* the output directory: name -> the cycle whose report it holds
    copies,       \* every historical copy made so far: <<stamp, cycle>>
    lastStatus,   \* the status code of the last HTTP response
    nreq,         \* HTTP requests issued since the current cycle began
    srv,          \* the server: its page cap, its stock, its phases, its tasks
    exceptPhases, \* search_releases: parameter
    page,         \* search_releases: line 193
    releases,     \* search_releases: line 192
    new_releases, \* search_releases: line 201, then line 205
    resp,         \* resp_json['cis'] not yet turned into Release objects
    ctor,         \* the Release under construction: its json, its task json, its tasks
    pagesLog      \* the search requests of this search: page index, items returned

parseVars == <<in_id, parsed, task>>
searchVars == <<exceptPhases, page, releases, new_releases, resp, ctor, pagesLog>>
loopVars == <<mainNo, args, run_end, next_run, sleep_time_s, lastLog, wake>>
reportVars == <<cycle, stamp, g, found, output_md, files, copies>>
procVars == <<pc, caller, now, lastStatus, nreq, srv, searchVars, loopVars, reportVars>>
vars == <<parseVars, procVars>>

None == [none |-> TRUE]

(***************************** bounds ***************************************)
MaxIdLen == 5       \* longest free-form id handed to the parser
MaxFolders == 2     \* most folder segments in front of a task id's Release
MaxPageCap == 2     \* SpecSearch: the largest page the server serves
MaxPages == 2       \* SpecSearch: the server stocks at most MaxPages full pages
MaxTime == 120      \* Spec: the clock stops here
MaxCycles == 3      \* Spec: generate_report is entered at most this often

(************************** program constants *******************************)
resultsPerPage == 15    \* line 197: the page size the client asks for
SecPerMin == 60         \* line 401: call_every_min * 60; %M of lines 308-309

(************************* u_parse_xlr_id ***********************************)
Parts == {"Release", "Phase", "Task"}
Delims == {"-", "/"}
Alphabet == Delims \cup Parts \cup {"x"}

\* id.find("-"): the zero-based index of the first "-", or -1
Find(id, c) ==
    IF \E i \in 1..Len(id) : id[i] = c
    THEN (CHOOSE i \in 1..Len(id) : id[i] = c /\ \A j \in 1..(i-1) : id[j] # c) - 1
    ELSE -1

SentinelAnyHyphen(id) == IF Find(id, "-") >= 0 THEN "-" ELSE "/"

\* lines 60-63: the delimiter appended to the id
Sentinel(id) == IF Find(id, "-") > 0 THEN "-" ELSE "/"

\* the positions i where s[i] is a delimiter and the part keyword follows it:
\* where the sub-pattern [-\/]{part} can match
MatchStarts(s, part) ==
    {i \in 1..(Len(s) - 1) : s[i] \in Delims /\ s[i+1] = part}

MaxOf(S) == CHOOSE m \in S : \A n \in S : n <= m

\* the end of the run [^-\/]* that starts at position from (from - 1 when empty)
RECURSIVE RunEnd(_, _)
RunEnd(s, from) ==
    IF from <= Len(s) /\ s[from] \notin Delims THEN RunEnd(s, from + 1) ELSE from - 1

\* re.sub(rf"^(.*[-\/]{part}[^-\/]*).*", r"\1", s): the greedy .* takes the last
\* place the rest can match; without a match the string is returned as it is
SubPrefix(s, part) ==
    IF MatchStarts(s, part) = {} THEN s
    ELSE LET i == MaxOf(MatchStarts(s, part))
         IN  SubSeq(s, 1, RunEnd(s, i + 2))

MinOf(S) == CHOOSE m \in S : \A n \in S : m <= n

SubLastPartFirstMatch(s, part) ==
    IF MatchStarts(s, part) = {} THEN s
    ELSE LET i == MinOf(MatchStarts(s, part))
         IN  SubSeq(s, i + 1, RunEnd(s, i + 2))

\* re.sub(rf".*[-\/]({part}[^-\/]*).*", r"\1", s)
SubLastPart(s, part) ==
    IF MatchStarts(s, part) = {} THEN s
    ELSE LET i == MaxOf(MatchStarts(s, part))
         IN  SubSeq(s, i + 1, RunEnd(s, i + 2))

\* lines 60-68 (the part is one of Parts: line 53 has passed)
u_parse_xlr_id(id, part, last_part_only) ==
    LET s == Append(id, Sentinel(id))
    IN  IF last_part_only THEN SubLastPart(s, part) ELSE SubPrefix(s, part)

(***************************** Task *****************************************)
TaskIdsLastPartPhase(id_long) ==
    [id_long    |-> id_long,
     id         |-> u_parse_xlr_id(id_long, "Task", FALSE),
     phase_id   |-> u_parse_xlr_id(id_long, "Phase", TRUE),
     release_id |-> u_parse_xlr_id(id_long, "Release", TRUE)]

\* Task.__init__, lines 255-259: the ids derived from the long id
TaskIds(id_long) ==
    [id_long    |-> id_long,
     id         |-> u_parse_xlr_id(id_long, "Task", FALSE),
     phase_id   |-> u_parse_xlr_id(id_long, "Phase", FALSE),
     release_id |-> u_parse_xlr_id(id_long, "Release", TRUE)]

(***************************** HTTP *****************************************)
StatusCodes == {200, 403, 500}

raise_for_status_never(code, next) == next

\* Response.raise_for_status(), lines 102, 144, 199, 246: a 4xx or 5xx status
\* raises HTTPError; nothing in the program catches it, so the process ends.
\* Otherwise control goes on to next.
raise_for_status(code, next) == IF code >= 400 THEN "crashed" ELSE next

(***************************** the server ***********************************)
Min(a, b) == IF a <= b THEN a ELSE b

Digits == <<"1", "2", "3", "4", "5", "6", "7", "8", "9", "a", "b", "c">>
TaskLists == << <<>>, <<"A">>, <<"A", "B">>, <<"B", "A">> >>
TaskTitle == [A |-> "Deploy", B |-> "Verify"]
TaskType == [A |-> "xlrelease.ScriptTask", B |-> "xlrelease.GateTask"]
TaskPhase == [A |-> "dev", B |-> "prod"]

\* the page size in force: what the client asks for, capped by the server
PageSize == Min(resultsPerPage, srv.pageCap)

\* the n-th release of the server's stock, as the search endpoint returns it
SrvRelease(n, phase) ==
    [id           |-> <<"Applications", "/", "Folder", "/", "Release", Digits[n]>>,
     title        |-> <<"220519A00-", "R", Digits[n]>>,
     status       |-> "failed",
     currentPhase |-> phase]

\* /releases/search?page=p: the stock's items p*PageSize+1 .. (p+1)*PageSize, as
\* far as the stock goes; the current phase of each is the server's to say
SrvPage(p) ==
    LET first == p * PageSize + 1
        n == IF srv.total >= first THEN Min(PageSize, srv.total - p * PageSize) ELSE 0
    IN  {[i \in 1..n |-> SrvRelease(first + i - 1, ph[i])] : ph \in [1..n -> srv.phases]}

\* /api/v1/releases/{id}/active-tasks: the release is found by its short id
SrvActiveTasks(id) ==
    LET n == CHOOSE k \in 1..Len(Digits) : Digits[k] = id[Len(id)]
        names == TaskLists[((n + srv.taskShift) % Len(TaskLists)) + 1]
    IN  [i \in 1..Len(names) |->
            [id    |-> <<"Applications", "/", "Folder", "/">> \o id \o
                       <<"/", "Phase", TaskPhase[names[i]], "/", "Task", names[i]>>,
             title |-> TaskTitle[names[i]],
             type  |-> TaskType[names[i]]]]

\* /api/v1/phases/{phase_id_long}: the last letter of the id names the phase
SrvPhase(phase_id_long) ==
    [id |-> phase_id_long, title |-> phase_id_long[Len(phase_id_long)]]

(************************ Release, Task, the table **************************)
\* Task.__init__, lines 253-260: the json fields, the derived ids, the phase
Task(json, phase) ==
    [id_long    |-> json.id,
     id         |-> TaskIds(json.id).id,
     phase_id   |-> TaskIds(json.id).phase_id,
     release_id |-> TaskIds(json.id).release_id,
     title      |-> json.title,
     type       |-> json.type,
     phase      |-> phase]

\* Release.__init__, lines 133-137; url is set by search_releases, line 224
Release(json, tasks) ==
    [id_long      |-> json.id,
     id           |-> u_parse_xlr_id(json.id, "Release", TRUE),
     title        |-> json.title,
     status       |-> json.status,
     currentPhase |-> json.currentPhase,
     active_tasks |-> tasks,
     url          |-> <<>>]

ActiveTaskCols(t) == <<t.phase.title, t.title, t.type>>

ActiveTaskLoopFirstWins(tasks, v) ==
    IF tasks = <<>> THEN v ELSE ActiveTaskCols(Head(tasks))

\* lines 164-167: the loop over release.active_tasks assigns v3, v4, v5 anew for
\* every task
RECURSIVE ActiveTaskLoop(_, _)
ActiveTaskLoop(tasks, v) ==
    IF tasks = <<>> THEN v
    ELSE ActiveTaskLoop(Tail(tasks), ActiveTaskCols(Head(tasks)))

\* line 159: re.sub(r"\d*A\d*-", r"", release.title) drops the ticket number
StripTicket(title) == SelectSeq(title, LAMBDA c : c # "220519A00-")

\* lines 159-169: one table row
Row(release) ==
    <<[title |-> StripTicket(release.title), url |-> release.url], release.status>>
    \o ActiveTaskLoop(release.active_tasks, <<"-", "-", "-">>)

\* Release.get_md_from_releases, lines 150-174: the section's title and its
\* table (the header row, then one row per release), or "No releases found."
get_md_from_releases(rels, title) ==
    [title |-> title,
     table |-> IF Len(rels) > 0
               THEN <<<<"Release", "Status", "Active Phase", "Active task", "Task type">>>>
                    \o [i \in 1..Len(rels) |-> Row(rels[i])]
               ELSE <<>>,
     text  |-> IF Len(rels) > 0 THEN "" ELSE "No releases found."]

(*************************** search_releases ********************************)
\* collecting_info, lines 285-300: the exceptPhases of its three searches
GroupExcept(i) ==
    CASE i = 1 -> {}
      [] i = 2 -> {"tstux - Qualitycheck"}
      [] i = 3 -> {"TSTUX"}

KeepPhases(rels, exc) == SelectSeq(rels, LAMBDA r : r.currentPhase \notin exc)

PageStepStopWhenNoneKept(new, exc) ==
    [stop |-> Len(KeepPhases(new, exc)) = 0, keep |-> KeepPhases(new, exc)]

\* lines 202-205: the loop ends on a page without releases, before the phase
\* filter is applied; otherwise the releases of the page that pass it are kept
PageStep(new, exc) ==
    [stop |-> Len(new) = 0, keep |-> KeepPhases(new, exc)]

NextPageForgotten(p) == p

\* line 212
NextPage(p) == p + 1

\* lines 178-193: the locals of a search that begins
BeginSearch(exc) ==
    /\ exceptPhases' = exc
    /\ page' = 0
    /\ releases' = <<>>
    /\ new_releases' = <<>>
    /\ resp' = <<>>
    /\ ctor' = None
    /\ pagesLog' = <<>>

\* lines 195-201: POST /releases/search?page={page}; the response's cis are next
\* turned into Release objects one by one
SearchPost ==
    /\ pc = "post"
    /\ \E code \in StatusCodes, cis \in SrvPage(page) :
          /\ lastStatus' = code
          /\ nreq' = nreq + 1
          /\ pc' = raise_for_status(code, IF cis = <<>> THEN "page" ELSE "release")
          /\ IF pc' = "crashed"
             THEN UNCHANGED <<resp, new_releases, pagesLog>>
             ELSE /\ resp' = cis
                  /\ new_releases' = <<>>
                  /\ pagesLog' = Append(pagesLog, [page |-> page, cis |-> cis])
    /\ UNCHANGED <<exceptPhases, page, releases, ctor>>
    /\ UNCHANGED <<caller, now, srv, loopVars, reportVars, parseVars>>

\* Release(**x) for the next of the cis, lines 133-147: GET its active tasks.
\* Without active tasks the Release is complete; otherwise its Tasks are built.
ReleaseInit ==
    /\ pc = "release"
    /\ LET json == Head(resp)
           id == u_parse_xlr_id(json.id, "Release", TRUE)
           tasksJson == SrvActiveTasks(id)
       IN  \E code \in StatusCodes :
              /\ lastStatus' = code
              /\ nreq' = nreq + 1
              /\ pc' = raise_for_status(code,
                          IF tasksJson # <<>> THEN "task"
                          ELSE IF Tail(resp) = <<>> THEN "page" ELSE "release")
              /\ IF pc' = "crashed"
                 THEN UNCHANGED <<resp, new_releases, ctor>>
                 ELSE IF tasksJson # <<>>
                 THEN /\ ctor' = [json |-> json, tasksJson |-> tasksJson, tasks |-> <<>>]
                      /\ UNCHANGED <<resp, new_releases>>
                 ELSE /\ new_releases' = Append(new_releases, Release(json, <<>>))
                      /\ resp' = Tail(resp)
                      /\ ctor' = None
    /\ UNCHANGED <<exceptPhases, page, releases, pagesLog>>
    /\ UNCHANGED <<caller, now, srv, loopVars, reportVars, parseVars>>

\* Task(**x) for the next active task, lines 253-260: derive its ids, GET its
\* phase.  After the last Task the Release is complete (lines 146-147, 137).
TaskInit ==
    /\ pc = "task"
    /\ LET json == Head(ctor.tasksJson)
           phase == SrvPhase(TaskIds(json.id).phase_id)
           tasks == Append(ctor.tasks, Task(json, phase))
           last == Tail(ctor.tasksJson) = <<>>
       IN  \E code \in StatusCodes :
              /\ lastStatus' = code
              /\ nreq' = nreq + 1
              /\ pc' = raise_for_status(code,
                          IF ~last THEN "task"
                          ELSE IF Tail(resp) = <<>> THEN "page" ELSE "release")
              /\ IF pc' = "crashed"
                 THEN UNCHANGED <<resp, new_releases, ctor>>
                 ELSE IF ~last
                 THEN /\ ctor' = [ctor EXCEPT !.tasksJson = Tail(@), !.tasks = tasks]
                      /\ UNCHANGED <<resp, new_releases>>
                 ELSE /\ new_releases' = Append(new_releases, Release(ctor.json, tasks))
                      /\ resp' = Tail(resp)
                      /\ ctor' = None
    /\ UNCHANGED <<exceptPhases, page, releases, pagesLog>>
    /\ UNCHANGED <<caller, now, srv, loopVars, reportVars, parseVars>>

\* lines 202-212: the page has been turned into new_releases
PageDone ==
    /\ pc = "page"
    /\ LET step == PageStep(new_releases, exceptPhases)
       IN  IF step.stop
           THEN /\ pc' = "ret"
                /\ UNCHANGED <<new_releases, releases, page>>
           ELSE /\ new_releases' = step.keep
                /\ releases' = releases \o step.keep
                /\ page' = NextPage(page)
                /\ pc' = "post"
    /\ UNCHANGED <<exceptPhases, resp, ctor, pagesLog>>
    /\ UNCHANGED <<caller, now, lastStatus, nreq, srv, loopVars, reportVars, parseVars>>

\* lines 223-226: what search_releases returns
Returned == [i \in 1..Len(releases) |->
                [releases[i] EXCEPT !.url = <<"#/releases/">> \o releases[i].id_long]]

\* lines 213-226, then collecting_info, lines 285-302: the result is stored and
\* the next of the three searches begins; after the third, generate_report goes
\* on to write the report.  Called directly, search_releases just returns.
SearchReturn ==
    /\ pc = "ret"
    /\ found' = [found EXCEPT ![g] = Returned]
    /\ IF caller = "direct"
       THEN /\ pc' = "md"
            /\ UNCHANGED <<g, searchVars>>
       ELSE IF g < 3
       THEN /\ g' = g + 1
            /\ BeginSearch(GroupExcept(g + 1))
            /\ pc' = "post"
       ELSE /\ pc' = "write"
            /\ UNCHANGED <<g, searchVars>>
    /\ UNCHANGED <<cycle, stamp, output_md, files, copies>>
    /\ UNCHANGED <<caller, now, lastStatus, nreq, srv, loopVars, parseVars>>

(***************************** the process **********************************)
Alive == pc \notin {"exit", "crashed", "idle", "md", "done"}

\* the minute of "%Y%m%d_%H%M", line 309
MinuteStamp(t) == t \div SecPerMin

\* line 281, Server.__init__, lines 98-102: the login request (both credentials
\* are set in the environment)
Login ==
    /\ pc = "import"
    /\ \E code \in StatusCodes :
          /\ lastStatus' = code
          /\ nreq' = nreq + 1
          /\ pc' = raise_for_status(code, "main")
    /\ UNCHANGED <<caller, now, srv, searchVars, loopVars, reportVars, parseVars>>

\* main(), lines 343-399: the arguments are those of the command line (a release
\* title is given and the output directory exists); line 399
MainStart ==
    /\ pc = "main"
    /\ run_end' = now + args.run_secs
    /\ pc' = "l401"
    /\ UNCHANGED <<mainNo, args, next_run, sleep_time_s, lastLog, wake>>
    /\ UNCHANGED <<caller, now, lastStatus, nreq, srv, searchVars, reportVars, parseVars>>

\* line 401
LoopTop ==
    /\ pc = "l401"
    /\ next_run' = now + args.call_every_min * SecPerMin
    /\ pc' = "l402"
    /\ UNCHANGED <<mainNo, args, run_end, sleep_time_s, lastLog, wake>>
    /\ UNCHANGED <<caller, now, lastStatus, nreq, srv, searchVars, reportVars, parseVars>>

\* main() returns; lines 416-417: the __main__ block calls main() a second time
ReturnFromMain ==
    IF mainNo = 1
    THEN mainNo' = 2 /\ pc' = "main"
    ELSE mainNo' = mainNo /\ pc' = "exit"

\* lines 402-403
LoopEnd ==
    /\ pc = "l402"
    /\ now > run_end
    /\ ReturnFromMain
    /\ UNCHANGED <<args, run_end, next_run, sleep_time_s, lastLog, wake>>
    /\ UNCHANGED <<caller, now, lastStatus, nreq, srv, searchVars, reportVars, parseVars>>

\* line 404, generate_report, lines 306-310, collecting_info, line 286: the time
\* stamp is taken and the first search begins
GenerateReport ==
    /\ pc = "l402"
    /\ ~(now > run_end)
    /\ cycle < MaxCycles
    /\ cycle' = cycle + 1
    /\ stamp' = MinuteStamp(now)
    /\ nreq' = 0
    /\ g' = 1
    /\ found' = [i \in 1..3 |-> <<>>]
    /\ BeginSearch(GroupExcept(1))
    /\ pc' = "post"
    /\ UNCHANGED <<output_md, files, copies>>
    /\ UNCHANGED <<caller, now, lastStatus, srv, loopVars, parseVars>>

\* a file of the output directory
File(name, ext, c) == [name |-> name, ext |-> ext, cycle |-> c]

\* generate_report, lines 312-339: the report is put together and written to
\* the two LATEST files; with keep_files each is copied to a stamped name
WriteReport ==
    /\ pc = "write"
    /\ output_md' = <<get_md_from_releases(found[1], "Failed items with tag: [release]"),
                      get_md_from_releases(found[3], "Failed items with tag: [applikationstests]"),
                      get_md_from_releases(found[2], "Failed items with tag: [rollout]")>>
    /\ LET names == {-1} \cup (IF args.keep_files THEN {stamp} ELSE {})
       IN  files' = {f \in files : f.name \notin names}
                    \cup {File(n, e, cycle) : n \in names, e \in {"md", "md.html"}}
    /\ copies' = IF args.keep_files
                 THEN copies \cup {[stamp |-> stamp, cycle |-> cycle]}
                 ELSE copies
    /\ pc' = "l405"
    /\ UNCHANGED <<cycle, stamp, g, found>>
    /\ UNCHANGED <<caller, now, lastStatus, nreq, srv, searchVars, loopVars, parseVars>>

\* lines 405-412
AfterReport ==
    /\ pc = "l405"
    /\ sleep_time_s' = now - next_run
    /\ IF next_run > run_end
       THEN /\ ReturnFromMain
            /\ UNCHANGED <<lastLog, wake>>
       ELSE IF sleep_time_s' > 0
       THEN /\ lastLog' = "Waiting"
            /\ wake' = now + sleep_time_s'
            /\ pc' = "sleep"
            /\ UNCHANGED mainNo
       ELSE /\ lastLog' = "Wait time too low"
            /\ pc' = "l401"
            /\ UNCHANGED <<mainNo, wake>>
    /\ UNCHANGED <<args, run_end, next_run>>
    /\ UNCHANGED <<caller, now, lastStatus, nreq, srv, searchVars, reportVars, parseVars>>

\* line 410: time.sleep(sleep_time_s) is over
Wake ==
    /\ pc = "sleep"
    /\ now >= wake
    /\ pc' = "l401"
    /\ UNCHANGED <<caller, now, lastStatus, nreq, srv, searchVars, loopVars, reportVars, parseVars>>

\* the clock, read by time.time() and datetime.now(), lines 306-307, 399-405
ClockSteps == {30}

Tick ==
    /\ Alive
    /\ \E d \in ClockSteps :
          /\ now + d <= MaxTime
          /\ now' = now + d
    /\ UNCHANGED <<pc, caller, lastStatus, nreq, srv, searchVars, loopVars, reportVars, parseVars>>

ParseIdle ==
    /\ in_id = <<>>
    /\ parsed = None
    /\ task = None

SearchIdle ==
    /\ exceptPhases = {}
    /\ page = 0
    /\ releases = <<>>
    /\ new_releases = <<>>
    /\ resp = <<>>
    /\ ctor = None
    /\ pagesLog = <<>>

LoopIdle ==
    /\ mainNo = 1
    /\ run_end = 0
    /\ next_run = 0
    /\ sleep_time_s = 0
    /\ lastLog = ""
    /\ wake = 0

ReportIdle ==
    /\ cycle = 0
    /\ stamp = 0
    /\ g = 1
    /\ found = [i \in 1..3 |-> <<>>]
    /\ output_md = <<>>
    /\ files = {}
    /\ copies = {}

\* the process starts: the command line, the clock and the server are given
Init ==
    /\ ParseIdle
    /\ SearchIdle
    /\ LoopIdle
    /\ ReportIdle
    /\ pc = "import"
    /\ caller = "collecting_info"
    /\ args \in [call_every_min : {0, 1}, run_secs : {0, 60}, keep_files : BOOLEAN]
    /\ now \in {0, 30}
    /\ lastStatus = 0
    /\ nreq = 0
    /\ srv \in [pageCap : {1}, total : {0, 1}, taskShift : {0}, phases : {{"TSTUX"}}]

Next ==
    \/ Login \/ MainStart \/ LoopTop \/ LoopEnd \/ GenerateReport
    \/ SearchPost \/ ReleaseInit \/ TaskInit \/ PageDone \/ SearchReturn
    \/ WriteReport \/ AfterReport \/ Wake \/ Tick

Spec == Init /\ [][Next]_vars

(************* SpecSearch: search_releases called on its own ****************)
InitSearch ==
    /\ ParseIdle
    /\ exceptPhases \in {{}, {"TSTUX"}}
    /\ page = 0
    /\ releases = <<>>
    /\ new_releases = <<>>
    /\ resp = <<>>
    /\ ctor = None
    /\ pagesLog = <<>>
    /\ LoopIdle
    /\ ReportIdle
    /\ pc = "post"
    /\ caller = "direct"
    /\ args = [call_every_min |-> 3, run_secs |-> 3600, keep_files |-> FALSE]
    /\ now = 0
    /\ lastStatus = 0
    /\ nreq = 0
    /\ srv \in UNION {[pageCap : {cap}, total : 0..(cap * MaxPages),
                       taskShift : 0..(Len(TaskLists) - 1),
                       phases : {{"TSTUX", "PROD"}}] : cap \in 1..MaxPageCap}

\* get_md_from_releases on what the search returned
GetMd ==
    /\ pc = "md"
    /\ output_md' = <<get_md_from_releases(found[g], "Some releases")>>
    /\ pc' = "done"
    /\ UNCHANGED <<cycle, stamp, g, found, files, copies>>
    /\ UNCHANGED <<caller, now, lastStatus, nreq, srv, searchVars, loopVars, parseVars>>

NextSearch ==
    \/ SearchPost \/ ReleaseInit \/ TaskInit \/ PageDone \/ SearchReturn \/ GetMd

SpecSearch == InitSearch /\ [][NextSearch]_vars

(********************* SpecParse: the parser on bounded ids *****************)
RECURSIVE SeqsUpTo(_, _)
SeqsUpTo(S, n) ==
    IF n = 0 THEN {<<>>}
    ELSE LET shorter == SeqsUpTo(S, n - 1)
         IN  shorter \cup {Append(s, c) : s \in {t \in shorter : Len(t) = n - 1}, c \in S}

\* a segment: a keyword or a letter, with or without one more letter after it
Segment(kind) == {<<kind>>, <<kind, "x">>}

RECURSIVE FolderPaths(_)
FolderPaths(n) ==
    IF n = 0 THEN {<<>>}
    ELSE FolderPaths(n - 1) \cup
         {f \o <<"x", d>> : f \in {h \in FolderPaths(n - 1) : Len(h) = 2 * (n - 1)},
                            d \in Delims}

\* ids of the form <folders>/Release.../Phase.../Task...[/Task...], line 56-58
TaskFormIds ==
    {f \o <<d1>> \o r \o <<d2>> \o p \o <<d3>> \o t \o n :
        f \in {<<>>} \cup {SubSeq(h, 1, Len(h) - 1) : h \in FolderPaths(MaxFolders) \ {<<>>}},
        d1 \in Delims, d2 \in Delims, d3 \in Delims,
        r \in Segment("Release"), p \in Segment("Phase"), t \in Segment("Task"),
        n \in {<<>>, <<"/", "Task">>}}

InputIds == SeqsUpTo(Alphabet, MaxIdLen) \cup TaskFormIds

ProcIdle ==
    /\ SearchIdle
    /\ LoopIdle
    /\ ReportIdle
    /\ pc = "idle"
    /\ caller = "direct"
    /\ args = [call_every_min |-> 3, run_secs |-> 3600, keep_files |-> FALSE]
    /\ now = 0
    /\ lastStatus = 0
    /\ nreq = 0
    /\ srv = [pageCap |-> 1, total |-> 0, taskShift |-> 0, phases |-> {"PROD"}]

InitParse ==
    /\ in_id \in InputIds
    /\ parsed = None
    /\ task = None
    /\ ProcIdle

\* one call u_parse_xlr_id(in_id, part, last_part_only)
CallParse ==
    /\ parsed = None
    /\ task = None
    /\ \E part \in Parts, last \in BOOLEAN :
          parsed' = [part |-> part, last_part_only |-> last,
                     retval |-> u_parse_xlr_id(in_id, part, last)]
    /\ UNCHANGED <<in_id, task, procVars>>

\* line 53-55: a part that is not implemented ends the process
CallParseBadPart ==
    /\ parsed = None
    /\ task = None
    /\ parsed' = [part |-> "Folder", exited |-> TRUE]
    /\ UNCHANGED <<in_id, task, procVars>>

\* Task(id=in_id, ...): lines 253-260, the phase fetched from the server
NewTask ==
    /\ parsed = None
    /\ task = None
    /\ LET json == [id |-> in_id, title |-> TaskTitle.A, type |-> TaskType.A]
       IN  \E code \in StatusCodes :
              task' = IF raise_for_status(code, "ok") = "crashed"
                      THEN [raised |-> "HTTPError"]
                      ELSE Task(json, SrvPhase(TaskIds(in_id).phase_id))
    /\ UNCHANGED <<in_id, parsed, procVars>>

NextParse == CallParse \/ CallParseBadPart \/ NewTask

SpecParse == InitParse /\ [][NextParse]_vars

(************************ the claims on the parser **************************)
\* the segments of an id: what lies between its delimiters
RECURSIVE Split(_)
Split(id) ==
    IF \A i \in 1..Len(id) : id[i] \notin Delims THEN <<id>>
    ELSE LET i == MinOf({j \in 1..Len(id) : id[j] \in Delims})
         IN  <<SubSeq(id, 1, i - 1)>> \o Split(SubSeq(id, i + 1, Len(id)))

StartsWith(seg, part) == Len(seg) > 0 /\ seg[1] = part
IsPrefix(a, b) == Len(a) <= Len(b) /\ SubSeq(b, 1, Len(a)) = a

\* the places of the segments of id that start with part
SegsOf(id, part) == {k \in 1..Len(Split(id)) : StartsWith(Split(id)[k], part)}

Called == "retval" \in DOMAIN parsed
CalledReleaseLast == Called /\ parsed.part = "Release" /\ parsed.last_part_only

\* the delimiter lines 60-63 append: "-" when the id has a hyphen and does not
\* begin with one
Appended(id) ==
    IF (\E i \in 1..Len(id) : id[i] = "-") /\ id[1] # "-" THEN "-" ELSE "/"

\* C7 as claimed: whenever some segment of the id starts with "Release", at any
\* position, u_parse_xlr_id(id, "Release", last_part_only=True) returns exactly
\* the last such segment.
C7_Original ==
    (CalledReleaseLast /\ SegsOf(in_id, "Release") # {})
        => parsed.retval = Split(in_id)[MaxOf(SegsOf(in_id, "Release"))]

\* C7 amended: whenever some segment of the id other than its first starts with
\* "Release", u_parse_xlr_id(id, "Release", last_part_only=True) returns exactly
\* the last such segment, whatever follows it; when only the first segment
\* starts with "Release", it returns the whole id with a delimiter appended.
C7_Amended ==
    /\ (CalledReleaseLast /\ SegsOf(in_id, "Release") \ {1} # {})
          => parsed.retval = Split(in_id)[MaxOf(SegsOf(in_id, "Release"))]
    /\ (CalledReleaseLast /\ SegsOf(in_id, "Release") = {1})
          => parsed.retval = Append(in_id, Appended(in_id))

\* C7's case: a Release segment behind a folder, with a Phase and two Task
\* segments after it, has been extracted
C7_Witness ==
    /\ CalledReleaseLast
    /\ parsed.retval = <<"Release", "x">>
    /\ SegsOf(in_id, "Release") = {2}
    /\ SegsOf(in_id, "Phase") = {3}
    /\ SegsOf(in_id, "Task") = {4, 5}

\* C10 as claimed: when no segment of the id starts with the requested part,
\* u_parse_xlr_id returns the id unmodified, for either value of last_part_only.
C10_Original ==
    (Called /\ SegsOf(in_id, parsed.part) = {}) => parsed.retval = in_id

\* C10 amended: when no segment of the id starts with the requested part,
\* u_parse_xlr_id returns, for either value of last_part_only, the id with one
\* delimiter appended: "-" when the id has a hyphen and does not begin with
\* one, "/" otherwise.
C10_Amended ==
    (Called /\ SegsOf(in_id, parsed.part) = {})
        => parsed.retval = Append(in_id, Appended(in_id))

\* C10's case: Task has been asked of a hyphenated id of a folder, a Release and
\* a Phase segment
C10_Witness ==
    /\ Called
    /\ parsed.part = "Task"
    /\ ~parsed.last_part_only
    /\ SegsOf(in_id, "Task") = {}
    /\ in_id = <<"x", "-", "Release", "-", "Phase">>
    /\ parsed.retval = Append(in_id, "-")

\* the form <folders>/Release.../Phase.../Task...: folder segments (at least
\* one, possibly empty), a Release segment, a Phase segment, Task segments
IsTaskForm(id) ==
    LET segs == Split(id)
    IN  \E r \in 2..(Len(segs) - 2) :
           /\ \A k \in 1..(r - 1) : \A part \in Parts : ~StartsWith(segs[k], part)
           /\ StartsWith(segs[r], "Release")
           /\ StartsWith(segs[r + 1], "Phase")
           /\ \A k \in (r + 2)..Len(segs) : StartsWith(segs[k], "Task")

TaskBuilt == "id_long" \in DOMAIN task

\* C6 as claimed: for a Task whose long id has the form
\* <folders>/Release.../Phase.../Task..., phase_id and release_id are both
\* prefixes of id_long.
C6_Original ==
    (TaskBuilt /\ IsTaskForm(task.id_long))
        => IsPrefix(task.phase_id, task.id_long) /\ IsPrefix(task.release_id, task.id_long)

\* C6 amended: for a Task whose long id has the form
\* <folders>/Release.../Phase.../Task..., phase_id is a prefix of id_long, and
\* release_id is the Release segment of id_long alone: a part of id_long that
\* begins behind the folders, and not a prefix of it.
C6_Amended ==
    (TaskBuilt /\ IsTaskForm(task.id_long))
        => /\ IsPrefix(task.phase_id, task.id_long)
           /\ task.release_id = Split(task.id_long)[MaxOf(SegsOf(task.id_long, "Release"))]
           /\ \E k \in 2..Len(task.id_long) :
                 SubSeq(task.id_long, k, k + Len(task.release_id) - 1) = task.release_id
           /\ ~IsPrefix(task.release_id, task.id_long)

\* C6's case: a Task has been built from an id with two folders and a nested Task
C6_Witness ==
    /\ TaskBuilt
    /\ IsTaskForm(task.id_long)
    /\ SegsOf(task.id_long, "Release") = {3}
    /\ SegsOf(task.id_long, "Task") = {5, 6}
    /\ task.phase_id # task.id_long

(************************ the claims on the search **************************)
SearchOver == pc \in {"ret", "md", "done"}
HasReturned == pc \in {"md", "done"}

RECURSIVE Concat(_)
Concat(ss) == IF ss = <<>> THEN <<>> ELSE Head(ss) \o Concat(Tail(ss))

\* everything the server has returned to this search, in page order
Served == Concat([i \in 1..Len(pagesLog) |-> pagesLog[i].cis])

Distinct(seq) == \A i, j \in 1..Len(seq) : seq[i] = seq[j] => i = j

\* C4: with a stock of exactly N*k items served in pages of N and no phase
\* excluded, the search requests the pages 0, 1, ..., k in this order, k+1
\* requests in all, the last of them answered with no item, and returns exactly
\* N*k releases, none of them twice.
C4_PagesInOrder ==
    (exceptPhases = {} /\ srv.total % PageSize = 0)
        => LET k == srv.total \div PageSize
           IN  /\ \A i \in 1..Len(pagesLog) : pagesLog[i].page = i - 1
               /\ Len(pagesLog) <= k + 1
               /\ SearchOver => /\ Len(pagesLog) = k + 1
                                /\ pagesLog[k + 1].cis = <<>>
               /\ HasReturned => /\ Len(found[g]) = PageSize * k
                                 /\ Distinct([i \in 1..Len(found[g]) |-> found[g][i].id_long])

\* C4's case: four items in pages of two have been searched and returned
C4_Witness ==
    /\ pc = "done"
    /\ exceptPhases = {}
    /\ PageSize = 2
    /\ srv.total = 4
    /\ Len(pagesLog) = 3
    /\ Len(found[g]) = 4

\* C9: pages are requested until one comes back without items, and only then
\* the search ends; it returns, in page order, exactly the releases served
\* whose currentPhase is not excluded, so that a page whose releases are all
\* excluded neither ends the search nor loses the releases of later pages.
C9_FilterKeepsPaging ==
    /\ \A i \in 1..(Len(pagesLog) - 1) : pagesLog[i].cis # <<>>
    /\ SearchOver => pagesLog[Len(pagesLog)].cis = <<>>
    /\ HasReturned =>
          LET kept == SelectSeq(Served, LAMBDA x : x.currentPhase \notin exceptPhases)
          IN  /\ Len(Served) = srv.total
              /\ Len(found[g]) = Len(kept)
              /\ \A i \in 1..Len(kept) :
                    /\ found[g][i].id_long = kept[i].id
                    /\ found[g][i].currentPhase = kept[i].currentPhase
              /\ \A i \in 1..Len(found[g]) : found[g][i].currentPhase \notin exceptPhases

\* C9's case: the whole first page was excluded, and a release of the second
\* page has been returned
C9_Witness ==
    /\ pc = "done"
    /\ exceptPhases = {"TSTUX"}
    /\ Len(pagesLog) = 3
    /\ Len(pagesLog[1].cis) = 2
    /\ \A i \in 1..2 : pagesLog[1].cis[i].currentPhase = "TSTUX"
    /\ Len(found[g]) = 1
    /\ \E i \in 1..Len(pagesLog[2].cis) : found[g][1].id_long = pagesLog[2].cis[i].id

\* the names of the active tasks the server holds for a release
ServerTaskNames(release) ==
    LET n == CHOOSE k \in 1..Len(Digits) : Digits[k] = release.id_long[Len(release.id_long)]
    IN  TaskLists[((n + srv.taskShift) % Len(TaskLists)) + 1]

\* C8: the row of a release shows, in its last three columns, the phase title,
\* the title and the type of the last of its active tasks and of no other, and
\* "-" three times for a release without active tasks.
C8_LastTaskWins ==
    pc = "done" =>
        /\ Len(output_md[1].table) = (IF found[g] = <<>> THEN 0 ELSE Len(found[g]) + 1)
        /\ \A i \in 1..Len(found[g]) :
              LET row == output_md[1].table[i + 1]
                  names == ServerTaskNames(found[g][i])
              IN  /\ Len(row) = 5
                  /\ SubSeq(row, 3, 5) =
                        IF names = <<>> THEN <<"-", "-", "-">>
                        ELSE LET b == names[Len(names)]
                             IN  <<TaskPhase[b], TaskTitle[b], TaskType[b]>>

\* C8's case: the table has a row for a release with the active tasks [A, B], and
\* a row for a release without active tasks
C8_Witness ==
    /\ pc = "done"
    /\ \E i, j \in 1..Len(found[g]) :
          /\ ServerTaskNames(found[g][i]) = <<"A", "B">>
          /\ Len(found[g][i].active_tasks) = 2
          /\ SubSeq(output_md[1].table[i + 1], 3, 5)
                = <<"prod", "Verify", "xlrelease.GateTask">>
          /\ found[g][j].active_tasks = <<>>
          /\ SubSeq(output_md[1].table[j + 1], 3, 5) = <<"-", "-", "-">>

(************************ the claims on the process *************************)
\* C1 as claimed: when the loop goes on after a report, it sleeps until the next
\* tick (next_run) or the end time, whichever is sooner, and never a negative
\* time; only when the report ended after the next tick does it log the warning
\* and go on without sleeping.  (line 405: the report ended at
\* sleep_time_s + next_run.)
C1_SleepsUntilNextTick ==
    /\ (pc = "l401" /\ lastLog = "Wait time too low") => sleep_time_s >= 0
    /\ pc = "sleep" => /\ wake = Min(next_run, run_end)
                       /\ wake >= sleep_time_s + next_run

\* C2 as claimed: a report generation begins only within the first main()'s
\* loop and not after the end time computed at its start; once that loop has
\* stopped (the second main() runs, or the process has ended) no report is
\* generated.
C2_NoReportAfterDone ==
    [][cycle' # cycle => (mainNo = 1 /\ now <= run_end)]_vars

\* C3 as claimed: with keep_files (and an interval of a minute or more), two
\* different report cycles never write their historical copies under the same
\* name.
C3_HistoricalNamesDiffer ==
    args.call_every_min >= 1
        => \A a, b \in copies : a.stamp = b.stamp => a.cycle = b.cycle

Failed == lastStatus >= 400

\* C5: a response with an error status ends the run there and then: the process
\* is dead, it issues no further request (the failed one is not repeated), and
\* the output directory holds no file of the cycle the error occurred in.
C5_HttpErrorEndsRun ==
    [][/\ Failed' => /\ pc' = "crashed"
                     /\ files' = files
                     /\ copies' = copies
                     /\ \A f \in files' : f.cycle # cycle'
       /\ Failed => /\ nreq' = nreq
                    /\ lastStatus' = lastStatus]_vars

\* C5's case: in the second cycle the phase request of a task has failed, after
\* the first search's page and that release's active tasks had been fetched;
\* the files of the first cycle are there
C5_Witness ==
    /\ pc = "crashed"
    /\ lastStatus = 500
    /\ cycle = 2
    /\ "tasksJson" \in DOMAIN ctor
    /\ nreq = 3
    /\ files # {}

====
